---- MODULE Spec2Model ----
(***************************************************************************)
(* Batch orchestration core of the PPT generator:                          *)
(*   ppt_generator/batch_generator.py  BatchImageGenerator                 *)
(*   ppt_generator/error_handler.py    SmartErrorHandler                   *)
(* A run of generate_with_style_consistency is modelled at the granularity *)
(* of the asyncio event loop: one action is the code a coroutine executes  *)
(* between two suspension points (semaphore acquire, backend call, sleep,  *)
(* gather).                                                                *)
(***************************************************************************)
EXTENDS Integers, Sequences, FiniteSets, TLC

\* ------------------------------------------------------------------ bounds
MaxUnits == 3          \* longest slide list of a run
MaxConcurrent == 2     \* largest max_concurrent of a run
MaxAttempt == 6        \* largest attempt number handed to analyze_error
MaxTime == 2           \* last instant of the clock
cache_ttl == 1         \* cache_ttl, in units of the clock
MaxStrLen == 2         \* longest part given to _compute_hash
MaxParts == 2          \* most parts given to _compute_hash
MaxPlanLen == 2        \* most slides of an outline given to get_changed_slides

\* ------------------------------------------------------- program constants
max_retries == 3              \* _generate_single_slide loop bound
CONTENT_POLICY_CODE == 5      \* Gemini status code of a policy violation
API_ERROR_MIN == 400          \* 400 <= error_code
API_ERROR_END == 600          \* error_code < 600
TIMEOUT_CAP == 3              \* _handle_timeout_error: attempt < 3
RATE_LIMIT_CAP == 5           \* _handle_rate_limit_error: attempt < 5
API_ERROR_CAP == 2            \* _handle_api_error: attempt < 2
NETWORK_CAP == 3              \* _handle_network_error: attempt < 3
UNKNOWN_CAP == 2              \* _handle_unknown_error: attempt < 2
RATE_LIMIT_MAX_DELAY == 60    \* min(2 ** (attempt + 1), 60)
MISSING_CODE == -1            \* error_response.get("code", -1)

\* ------------------------------------------------------------------ prompts
\* A prompt is the text sent to the backend.  It is kept as the unit whose
\* title and page line it carries, whether the style-consistency block is
\* prepended, and its lines, each line reduced to the class that the error
\* handler's text functions look at:
\*   "kw"    contains one of _simplify_prompt's important keywords
\*   "title" contains "title" (an important keyword as well)
\*   "short" no keyword, stripped length < 50, not empty
\*   "blank" the empty line
\*   "long"  no keyword, stripped length >= 50
\*   "sens"  a short line holding a word of SENSITIVE_WORDS(_EN)
\* Modelled prompts stay below the 500 characters at which _simplify_prompt
\* truncates.
LineClasses == {"kw", "title", "short", "blank", "long", "sens"}

EmptyLines == << >>

None == << >>
Some(x) == << x >>
IsNone(opt) == opt = << >>
Get(opt) == opt[1]

\* PromptTemplateSystem.build_image_prompt, without style hints: opening
\* line, blank, slide type / page / role lines, template text, title line,
\* style lines.
build_image_prompt(index) ==
    [unit |-> index, anchored |-> FALSE,
     lines |-> << "kw", "blank", "kw", "short", "long", "title", "blank", "kw" >>]

\* _build_slide_prompt: the built prompt, preceded by the style consistency
\* block when a style anchor is set.
StyleBlock == << "kw", "kw", "kw", "blank", "short", "blank" >>

build_slide_prompt(index, style_anchor) ==
    LET p == build_image_prompt(index)
    IN  IF ~IsNone(style_anchor)
        THEN [p EXCEPT !.anchored = TRUE, !.lines = StyleBlock \o p.lines]
        ELSE p

\* _build_anchor_prompt: hero slide prompt of the anchor unit.
build_anchor_prompt(index) ==
    [unit |-> index, anchored |-> FALSE,
     lines |-> << "kw", "blank", "kw", "blank", "title", "kw", "short", "kw" >>]

\* Python truthiness of a str: the empty string is false.  "\n".join of no
\* line and of one empty line are both "".
IsEmptyText(p) == p.lines = EmptyLines \/ p.lines = << "blank" >>

\* truthiness of an Optional[str]
Truthy(opt) == ~IsNone(opt) /\ ~IsEmptyText(Get(opt))

\* _sanitize_prompt: every sensitive word is replaced by its neutral word.
sanitize_prompt(p) ==
    [p EXCEPT !.lines = [k \in DOMAIN p.lines |->
                            IF p.lines[k] = "sens" THEN "short" ELSE p.lines[k]]]

\* _simplify_prompt: keeps the keyword lines and the short lines.
simplify_prompt(p) ==
    [p EXCEPT !.lines = SelectSeq(p.lines, LAMBDA c : c # "long")]

\* first line of the prompt containing "title", "" when there is none
RECURSIVE TitleLine(_)
TitleLine(lines) ==
    IF lines = << >> THEN "blank"
    ELSE IF Head(lines) = "title" THEN "title"
    ELSE TitleLine(Tail(lines))

\* _create_abstract_prompt: the fixed generic text followed by the title
\* line; the style-consistency block is not carried over.
create_abstract_prompt(p) ==
    [p EXCEPT !.anchored = FALSE,
              !.lines = << "kw", "blank", "kw", "kw", "blank", "short",
                           "short", "short", "short", "short", "blank",
                           TitleLine(p.lines), "blank" >>]

\* ------------------------------------------------------------ error handler
ErrorTypes ==
    {"content_policy", "timeout", "rate_limit", "api_error", "network_error",
     "unknown"}

MsgTokens == {"timeout", "rate_limit", "network"}

\* _classify_error: error_message is reduced to the keyword groups it
\* contains ("timeout"/"timed out", "rate limit"/"too many requests"/"429",
\* "connection"/"network"/"dns").
\* the classifier with the generic 4xx/5xx rule tried before the message
\* tokens
classify_error_generic_first(error_code, error_message) ==
    IF error_code = CONTENT_POLICY_CODE THEN "content_policy"
    ELSE IF API_ERROR_MIN <= error_code /\ error_code < API_ERROR_END THEN "api_error"
    ELSE IF "timeout" \in error_message THEN "timeout"
    ELSE IF "rate_limit" \in error_message THEN "rate_limit"
    ELSE IF "network" \in error_message THEN "network_error"
    ELSE "unknown"

classify_error(error_code, error_message) ==
    IF error_code = CONTENT_POLICY_CODE THEN "content_policy"
    ELSE IF "timeout" \in error_message THEN "timeout"
    ELSE IF "rate_limit" \in error_message THEN "rate_limit"
    ELSE IF "network" \in error_message THEN "network_error"
    ELSE IF API_ERROR_MIN <= error_code /\ error_code < API_ERROR_END THEN "api_error"
    ELSE "unknown"

\* message is the action taken, the texts being one per branch of a handler
ErrorAnalysis(type, action, modified, delay, retries, retry, fallback) ==
    [error_type |-> type, recovery_action |-> action,
     modified_prompt |-> modified, retry_delay |-> delay,
     max_retries |-> retries, should_retry |-> retry,
     fallback_data |-> fallback, message |-> action]

\* retry_delay is in milliseconds (0.5 s = 500)
handle_content_policy_error(original_prompt, attempt) ==
    IF attempt = 0
    THEN ErrorAnalysis("content_policy", "modify_prompt",
                       Some(sanitize_prompt(original_prompt)), 500, 2, TRUE, "None")
    ELSE IF attempt = 1
    THEN ErrorAnalysis("content_policy", "simplify_prompt",
                       Some(create_abstract_prompt(original_prompt)), 1000, 2, TRUE, "None")
    ELSE ErrorAnalysis("content_policy", "use_fallback", None, 0, 0, FALSE,
                       "gradient_fallback")

\* the timeout handler retrying with the prompt as it was
handle_timeout_error_same_prompt(original_prompt, attempt) ==
    IF attempt < TIMEOUT_CAP
    THEN ErrorAnalysis("timeout", "simplify_prompt",
                       Some(original_prompt),
                       2000 * (attempt + 1), 3, TRUE, "None")
    ELSE ErrorAnalysis("timeout", "use_fallback", None, 0, 0, FALSE,
                       "simple_fallback")

handle_timeout_error(original_prompt, attempt) ==
    IF attempt < TIMEOUT_CAP
    THEN ErrorAnalysis("timeout", "simplify_prompt",
                       Some(simplify_prompt(original_prompt)),
                       2000 * (attempt + 1), 3, TRUE, "None")
    ELSE ErrorAnalysis("timeout", "use_fallback", None, 0, 0, FALSE,
                       "simple_fallback")

Min(a, b) == IF a < b THEN a ELSE b

\* the rate-limit handler giving up with the orchestrator's loop bound
handle_rate_limit_error_cap3(original_prompt, attempt) ==
    LET delay == 1000 * Min(2 ^ (attempt + 1), RATE_LIMIT_MAX_DELAY)
    IN  IF attempt < 3
        THEN ErrorAnalysis("rate_limit", "retry_with_delay",
                           Some(original_prompt), delay, 5, TRUE, "None")
        ELSE ErrorAnalysis("rate_limit", "use_fallback", None, 0, 0, FALSE,
                           "simple_fallback")

handle_rate_limit_error(original_prompt, attempt) ==
    LET delay == 1000 * Min(2 ^ (attempt + 1), RATE_LIMIT_MAX_DELAY)
    IN  IF attempt < RATE_LIMIT_CAP
        THEN ErrorAnalysis("rate_limit", "retry_with_delay",
                           Some(original_prompt), delay, 5, TRUE, "None")
        ELSE ErrorAnalysis("rate_limit", "use_fallback", None, 0, 0, FALSE,
                           "simple_fallback")

handle_api_error(original_prompt, attempt) ==
    IF attempt < API_ERROR_CAP
    THEN ErrorAnalysis("api_error", "retry_with_delay",
                       Some(original_prompt), 3000, 2, TRUE, "None")
    ELSE ErrorAnalysis("api_error", "use_fallback", None, 0, 0, FALSE,
                       "error_fallback")

\* the network handler waiting the same time before every retry
handle_network_error_fixed_delay(original_prompt, attempt) ==
    IF attempt < NETWORK_CAP
    THEN ErrorAnalysis("network_error", "retry_with_delay",
                       Some(original_prompt), 5000, 3, TRUE, "None")
    ELSE ErrorAnalysis("network_error", "abort", None, 0, 0, FALSE,
                       "network_error")

handle_network_error(original_prompt, attempt) ==
    IF attempt < NETWORK_CAP
    THEN ErrorAnalysis("network_error", "retry_with_delay",
                       Some(original_prompt), 5000 * (attempt + 1), 3, TRUE, "None")
    ELSE ErrorAnalysis("network_error", "abort", None, 0, 0, FALSE,
                       "network_error")

handle_unknown_error(original_prompt, attempt) ==
    IF attempt < UNKNOWN_CAP
    THEN ErrorAnalysis("unknown", "retry_with_delay",
                       Some(original_prompt), 2000, 2, TRUE, "None")
    ELSE ErrorAnalysis("unknown", "use_fallback", None, 0, 0, FALSE,
                       "unknown_error")

\* A backend failure response is a dict; keys names the keys it has.
GetCode(error_response) ==
    IF "code" \in error_response.keys THEN error_response.code ELSE MISSING_CODE

GetMessage(error_response) ==
    IF "message" \in error_response.keys THEN error_response.message ELSE {}

analyze_error(error_response, original_prompt, attempt) ==
    LET error_type == classify_error(GetCode(error_response),
                                     GetMessage(error_response))
    IN  CASE error_type = "content_policy" ->
                handle_content_policy_error(original_prompt, attempt)
          [] error_type = "timeout" ->
                handle_timeout_error(original_prompt, attempt)
          [] error_type = "rate_limit" ->
                handle_rate_limit_error(original_prompt, attempt)
          [] error_type = "api_error" ->
                handle_api_error(original_prompt, attempt)
          [] error_type = "network_error" ->
                handle_network_error(original_prompt, attempt)
          [] OTHER ->
                handle_unknown_error(original_prompt, attempt)


\* -------------------------------------------------------------- slide lists
\* slide_type values of the modelled inputs
SlideTypes == {"title", "content"}

SlideLists == UNION {[1..n -> SlideTypes] : n \in 0..MaxUnits}

\* Python list indices: unit i of the model is slides[i + 1]
Units(sl) == 0..(Len(sl) - 1)

IsTitleType(slide_type) == slide_type = "title"

\* _find_anchor_slide: the first title-like slide, else the first slide;
\* None stands for the {} returned for an empty list.  A slide of the model
\* is its slide_type, so two slides of one type are equal dicts.
find_anchor_slide(sl) ==
    IF \E i \in Units(sl) : IsTitleType(sl[i + 1])
    THEN LET first == CHOOSE i \in Units(sl) :
                         /\ IsTitleType(sl[i + 1])
                         /\ \A j \in Units(sl) : IsTitleType(sl[j + 1]) => i <= j
         IN  Some(sl[first + 1])
    ELSE IF sl # << >> THEN Some(sl[1]) ELSE None

\* the index of the last element equal to x
list_index_last(sl, x) ==
    IF \E i \in Units(sl) : Some(sl[i + 1]) = x
    THEN CHOOSE i \in Units(sl) :
            /\ Some(sl[i + 1]) = x
            /\ \A j \in Units(sl) : Some(sl[j + 1]) = x => j <= i
    ELSE -1

\* slides.index(x): the index of the first element equal to x; -1 stands
\* for the ValueError raised when there is none
list_index(sl, x) ==
    IF \E i \in Units(sl) : Some(sl[i + 1]) = x
    THEN CHOOSE i \in Units(sl) :
            /\ Some(sl[i + 1]) = x
            /\ \A j \in Units(sl) : Some(sl[j + 1]) = x => i <= j
    ELSE -1

\* _group_slides_by_type: normalised type name of a slide
type_key(slide_type) ==
    IF slide_type = "title" THEN "title"
    ELSE IF slide_type = "toc" THEN "toc"
    ELSE IF slide_type = "data" THEN "data"
    ELSE IF slide_type = "timeline" THEN "timeline"
    ELSE IF slide_type = "conclusion" THEN "conclusion"
    ELSE "content"

\* remaining_slides without the test i != anchor_index
RECURSIVE remaining_slides_all(_, _, _)
remaining_slides_all(sl, anchor, i) ==
    IF i >= Len(sl) THEN << >>
    ELSE << i >> \o remaining_slides_all(sl, anchor, i + 1)

\* the indices of remaining_slides, ascending
RECURSIVE remaining_slides(_, _, _)
remaining_slides(sl, anchor, i) ==
    IF i >= Len(sl) THEN << >>
    ELSE (IF i # anchor THEN << i >> ELSE << >>) \o remaining_slides(sl, anchor, i + 1)

\* keys of the groups dict in insertion order
RECURSIVE group_keys(_, _)
group_keys(sl, rem) ==
    IF rem = << >> THEN << >>
    ELSE LET k == type_key(sl[Head(rem) + 1])
             rest == group_keys(sl, SelectSeq(Tail(rem),
                                  LAMBDA j : type_key(sl[j + 1]) # k))
         IN  << k >> \o rest

\* the task list of generate_with_style_consistency: group after group in
\* dict order, each group in input order
RECURSIVE tasks_of_groups(_, _, _)
tasks_of_groups(sl, rem, keys) ==
    IF keys = << >> THEN << >>
    ELSE SelectSeq(rem, LAMBDA j : type_key(sl[j + 1]) = Head(keys))
         \o tasks_of_groups(sl, rem, Tail(keys))

group_tasks(sl, anchor) ==
    LET rem == remaining_slides(sl, anchor, 0)
    IN  tasks_of_groups(sl, rem, group_keys(sl, rem))

\* ------------------------------------------------------------------ results
BatchGenerationResult(index, success, file_path, error, from_cache, retries) ==
    [slide_index |-> index, success |-> success, file_path |-> file_path,
     error |-> error, from_cache |-> from_cache, retries |-> retries]

\* list.sort(key=lambda x: x.slide_index): stable insertion into a sorted list
RECURSIVE insert_sorted(_, _)
insert_sorted(r, sorted) ==
    IF sorted = << >> THEN << r >>
    ELSE IF Head(sorted).slide_index <= r.slide_index
         THEN << Head(sorted) >> \o insert_sorted(r, Tail(sorted))
         ELSE << r >> \o sorted

\* the list left in the order it was built
sort_by_slide_index_skipped(rs) == rs

RECURSIVE sort_by_slide_index(_)
sort_by_slide_index(rs) ==
    IF rs = << >> THEN << >>
    ELSE insert_sorted(rs[Len(rs)], sort_by_slide_index(SubSeq(rs, 1, Len(rs) - 1)))


\* ------------------------------------------------------------------ backend
\* Failure dicts returned by image_tool.gemini_generate.  The last one has
\* the shape produced by ImageGenerationTool.generate_image: only an
\* "error" text, no "code" and no "message".
Failure(keys, code, message, error) ==
    [keys |-> keys, code |-> code, message |-> message, error |-> error]

BackendFailures ==
    { Failure({"code", "message"}, 5, {}, {}),
      Failure({"code", "message"}, 0, {"timeout"}, {}),
      Failure({"code", "message"}, 0, {"rate_limit"}, {}),
      Failure({"code", "message"}, 500, {}, {}),
      Failure({"code", "message"}, 0, {"network"}, {}),
      Failure({"error"}, 0, {}, {"timeout"}) }

KindOf(error_response) ==
    classify_error(GetCode(error_response), GetMessage(error_response))

\* what one backend call does: returns a success dict, returns the failure
\* dict f, or raises (a call that never returns is the action BackendHang)
BackendOutcomes(f) ==
    {[kind |-> "ok", response |-> Failure({}, 0, {}, {})],
     [kind |-> "raise", response |-> Failure({}, 0, {}, {})],
     [kind |-> "fail", response |-> f]}

\* -------------------------------------------------------------------- cache
\* The text whose hash _generate_single_slide looks up:
\* f"{title}_{slide_type}_{key_points}", one line.
slide_key_text(index) ==
    [unit |-> index, anchored |-> FALSE, lines |-> << "short" >>]

\* _compute_hash of one text: the first 16 hex digits of its SHA-256;
\* distinct texts of the model give distinct digests.
compute_hash(text) == [sha256_16 |-> text]

\* Strings given to the CacheManager: sequences of characters.
Separator == << "|", "|" >>

\* "||".join(str(arg) for arg in args)
RECURSIVE combined(_)
combined(args) ==
    IF Len(args) = 0 THEN << >>
    ELSE IF Len(args) = 1 THEN args[1]
    ELSE args[1] \o Separator \o combined(Tail(args))

\* _compute_hash(*args)
fingerprint(args) == compute_hash(combined(args))

\* (reference_text, style_requirements, model) of the outline calls
OutlineArgs ==
    { << << "a" >>, << "b" >>, << "m" >> >>,
      << << "c" >>, << "b" >>, << "m" >> >> }

\* prompt of the image calls; it reads "a||b||m"
Prompts == { << "a", "|", "|", "b", "|", "|", "m" >> }

Outlines == {"outline_1", "outline_2"}
Exts == {"png", "jpg"}
ImageContents == {"image_1"}

OutlineDigests == {fingerprint(a) : a \in OutlineArgs}
ImageDigests == {fingerprint(<< p >>) : p \in Prompts}
ImageNames == {[hash |-> d, ext |-> e] : d \in ImageDigests, e \in Exts}

\* -------------------------------------------------------------------- state
VARIABLES
    slides,           \* slide_type of each input slide, in input order
    max_concurrent,   \* argument max_concurrent
    cache_manager,    \* TRUE when a CacheManager is attached
    backend_failure,  \* the failure dict this run's backend returns when it fails
    image_cache_dir,  \* TRUE while the image cache directory exists
    image_files,      \* digests naming the files of the image cache
    phase,            \* position of generate_with_style_consistency
    anchor_index,
    style_anchor,     \* self.style_anchor: None or Some(description)
    results,          \* the list results
    tasks,            \* unit indices in the order handed to gather
    pc,               \* position of each unit's generation
    attempt,          \* loop variable attempt of each unit
    prompt,           \* local variable prompt of each unit
    task_result,      \* value returned by each unit's coroutine
    semaphore,        \* free permits of the asyncio.Semaphore
    waiters,          \* tasks queued on the semaphore, FIFO
    calls,            \* history: backend calls issued for each unit
    raises,           \* history: how many of them raised
    finished,         \* history: units in the order their generation returned
    an_input,         \* arguments of one analyze_error call
    an_output,        \* its ErrorAnalysis
    now,              \* datetime.now(), in units of time
    outline_store,    \* files of outline_cache_dir: digest -> content
    image_store,      \* files of image_cache_dir: (digest, ext) -> mtime, content
    metadata,         \* self.metadata["entries"]
    ret,              \* the last CacheManager call and what it returned
    stored_outline,   \* history: what the last store of each outline key left
    stored_image,     \* history: what the last store of each image key left
    hash_input,       \* two argument tuples of _compute_hash
    hash_output,      \* their combined strings and digests
    diff_input,       \* old and new outline given to get_changed_slides
    diff_output       \* the list it returned

cfg_vars == << slides, max_concurrent, cache_manager, backend_failure >>
cache_vars == << image_cache_dir, image_files >>
run_vars == << phase, anchor_index, style_anchor, results, tasks >>
task_vars == << pc, attempt, prompt, task_result, semaphore, waiters >>
hist_vars == << calls, raises, finished >>
an_vars == << an_input, an_output >>
store_vars == << now, outline_store, image_store, metadata, ret,
                stored_outline, stored_image >>
hash_vars == << hash_input, hash_output >>
diff_vars == << diff_input, diff_output >>
vars == << cfg_vars, cache_vars, run_vars, task_vars, hist_vars, an_vars,
          store_vars, hash_vars, diff_vars >>

NoResult == << >>
NoPrompt == << >>

\* record of one CacheManager call
Returned(op, key, fault, raised, value, result) ==
    [op |-> op, key |-> key, fault |-> fault, raised |-> raised,
     value |-> value, result |-> result]

NoCall == Returned("none", None, "none", FALSE, None, None)

\* a CacheManager just constructed on an empty directory (lines 38-48)
IdleStore ==
    /\ now = 0
    /\ outline_store = [k \in OutlineDigests |-> None]
    /\ image_store = [n \in ImageNames |-> None]
    /\ metadata = [k \in OutlineDigests \cup ImageDigests |-> None]
    /\ ret = NoCall
    /\ stored_outline = [k \in OutlineDigests |-> None]
    /\ stored_image = [k \in ImageDigests |-> None]

IdleHash ==
    /\ hash_input = None
    /\ hash_output = None

IdleDiff ==
    /\ diff_input = None
    /\ diff_output = None

\* backend calls of the run that are in flight
InFlight == {i \in Units(slides) : pc[i] \in {"calling", "hung"}}


\* --------------------------------------------------------------------- Init
\* _extract_style_description of the anchor slide
extract_style_description(index) ==
    [description |-> "style_requirements", slide_type |-> slides[index + 1]]

IdleRun ==
    /\ phase = "Idle"
    /\ anchor_index = -1
    /\ style_anchor = None
    /\ results = << >>
    /\ tasks = << >>
    /\ pc = [i \in Units(slides) |-> "none"]
    /\ attempt = [i \in Units(slides) |-> 0]
    /\ prompt = [i \in Units(slides) |-> NoPrompt]
    /\ task_result = [i \in Units(slides) |-> NoResult]
    /\ semaphore = 0
    /\ waiters = << >>
    /\ calls = [i \in Units(slides) |-> 0]
    /\ raises = [i \in Units(slides) |-> 0]
    /\ finished = << >>

\* State after BatchImageGenerator.__init__, with the arguments of the run
\* to come.  The cache directory outlives the process, so it may already
\* hold a file named by the digest of a unit's key text.
Init ==
    /\ slides \in SlideLists
    /\ max_concurrent \in 1..MaxConcurrent
    /\ cache_manager \in BOOLEAN
    /\ backend_failure \in BackendFailures
    /\ image_cache_dir = TRUE
    /\ image_files \in
         IF cache_manager
         THEN {{}} \cup {{compute_hash(slide_key_text(i))} : i \in Units(slides)}
         ELSE {{}}
    /\ IdleRun
    /\ an_input = None
    /\ an_output = None
    /\ IdleStore
    /\ IdleHash
    /\ IdleDiff

\* ------------------------------------------------------------------ actions
\* PPTGenerator.clear_cache() with older_than_days = None, before the run
clear_cache ==
    /\ phase = "Idle"
    /\ cache_manager
    /\ image_cache_dir
    /\ image_cache_dir' = FALSE
    /\ image_files' = {}
    /\ outline_store' = [k \in OutlineDigests |-> None]
    /\ image_store' = [n \in ImageNames |-> None]
    /\ stored_outline' = [k \in OutlineDigests |-> None]
    /\ stored_image' = [k \in ImageDigests |-> None]
    /\ UNCHANGED << cfg_vars, run_vars, task_vars, hist_vars, an_vars,
                    now, metadata, ret, hash_vars, diff_vars >>

\* StartRun with the anchor started as one more concurrent task instead of
\* being awaited first
StartRun_NoBarrier ==
    /\ phase = "Idle"
    /\ LET a == list_index(slides, find_anchor_slide(slides))
       IN  IF a = -1
           THEN /\ phase' = "Raised"
                /\ UNCHANGED << anchor_index, pc, prompt, calls, tasks, waiters, semaphore >>
           ELSE /\ phase' = "GenerateAnchor"
                /\ anchor_index' = a
                /\ prompt' = [prompt EXCEPT ![a] = Some(build_anchor_prompt(a))]
                /\ pc' = [i \in Units(slides) |-> IF i = a THEN "calling" ELSE "waiting"]
                /\ calls' = [calls EXCEPT ![a] = @ + 1]
                /\ tasks' = group_tasks(slides, a)
                /\ waiters' = group_tasks(slides, a)
                /\ semaphore' = max_concurrent
    /\ UNCHANGED << cfg_vars, cache_vars, style_anchor, results,
                    attempt, task_result, raises, finished, an_vars, store_vars, hash_vars, diff_vars >>

\* generate_with_style_consistency up to the await of the anchor's backend
\* call (lines 87-107, _generate_anchor up to line 213)
StartRun ==
    /\ phase = "Idle"
    /\ LET a == list_index(slides, find_anchor_slide(slides))
       IN  IF a = -1
           THEN \* slides.index({}) raises ValueError
                /\ phase' = "Raised"
                /\ UNCHANGED << anchor_index, pc, prompt, calls >>
           ELSE /\ phase' = "GenerateAnchor"
                /\ anchor_index' = a
                /\ prompt' = [prompt EXCEPT ![a] = Some(build_anchor_prompt(a))]
                /\ pc' = [pc EXCEPT ![a] = "calling"]
                /\ calls' = [calls EXCEPT ![a] = @ + 1]
    /\ UNCHANGED << cfg_vars, cache_vars, style_anchor, results, tasks,
                    attempt, task_result, semaphore, waiters, raises, finished, an_vars, store_vars, hash_vars, diff_vars >>

\* the style anchor written whatever the anchor result is
anchor_style_always(r, old) == Some(extract_style_description(r.slide_index))

\* lines 109-114: self.style_anchor after the anchor result r; a failed
\* anchor only logs a warning and leaves the attribute as it was
anchor_style(r, old) ==
    IF r.success THEN Some(extract_style_description(r.slide_index)) ELSE old

\* list built by line 153: the anchor result, then the gathered results in
\* task order
gathered(ts, tr) == [k \in 1..Len(ts) |-> Get(tr[ts[k]])]

\* the anchor's backend call returns or raises: rest of _generate_anchor,
\* lines 109-152 of generate_with_style_consistency, and lines 153-164 too
\* when there is no other unit (gather of no task is already done)
AnchorReturn(o) ==
    /\ phase = "GenerateAnchor"
    /\ pc[anchor_index] = "calling"
    /\ LET a == anchor_index
           r == IF o.kind = "ok"
                THEN BatchGenerationResult(a, TRUE, "generated", "None", FALSE, 0)
                ELSE IF o.kind = "fail"
                THEN BatchGenerationResult(a, FALSE, "None", "backend_error", FALSE, 0)
                ELSE BatchGenerationResult(a, FALSE, "None", "exception", FALSE, 0)
           ts == group_tasks(slides, a)
       IN  /\ style_anchor' = anchor_style(r, style_anchor)
           /\ raises' = [raises EXCEPT ![a] = IF o.kind = "raise" THEN @ + 1 ELSE @]
           /\ task_result' = [task_result EXCEPT ![a] = Some(r)]
           /\ pc' = [i \in Units(slides) |->
                        IF i = a THEN "done" ELSE "waiting"]
           /\ tasks' = ts
           /\ waiters' = ts
           /\ semaphore' = max_concurrent
           /\ IF ts = << >>
              THEN /\ results' = sort_by_slide_index(<< r >>)
                   /\ phase' = "Done"
              ELSE /\ results' = << r >>
                   /\ phase' = "GenerateGroups"
           /\ prompt' = [prompt EXCEPT ![a] = NoPrompt]
           /\ finished' = Append(finished, a)
    /\ UNCHANGED << cfg_vars, cache_vars, anchor_index, attempt, calls, an_vars, store_vars, hash_vars, diff_vars >>

\* a backend call that never returns
BackendHang(i) ==
    /\ pc[i] = "calling"
    /\ pc' = [pc EXCEPT ![i] = "hung"]
    /\ UNCHANGED << cfg_vars, cache_vars, run_vars, attempt, prompt,
                    task_result, semaphore, waiters, hist_vars, an_vars, store_vars, hash_vars, diff_vars >>

\* the coroutine of unit i returns r; its locals are gone
Finish(i, r) ==
    /\ pc' = [pc EXCEPT ![i] = "done"]
    /\ task_result' = [task_result EXCEPT ![i] = Some(r)]
    /\ prompt' = [prompt EXCEPT ![i] = NoPrompt]
    /\ attempt' = [attempt EXCEPT ![i] = 0]
    /\ finished' = Append(finished, i)

\* "async with semaphore" on asyncio.Semaphore(max_concurrent): acquire
\* suspends the task while no permit is free
locked_never(value) == FALSE

locked(value) == value <= 0

\* The first task queued on the semaphore is admitted and runs
\* _generate_single_slide up to its first suspension: cache lookup (lines
\* 251-264), prompt (266-273), start of the first backend call (291).
Admit ==
    /\ waiters # << >>
    /\ ~locked(semaphore)
    /\ LET i == Head(waiters)
       IN  /\ waiters' = Tail(waiters)
           /\ IF cache_manager /\ ~image_cache_dir
              THEN \* os.listdir raises; nothing catches it in the task
                   /\ pc' = [pc EXCEPT ![i] = "raised"]
                   /\ UNCHANGED << semaphore, task_result, prompt, attempt, calls, finished >>
              ELSE IF cache_manager /\ compute_hash(slide_key_text(i)) \in image_files
              THEN /\ Finish(i, BatchGenerationResult(i, TRUE, "cached", "None", TRUE, 0))
                   /\ UNCHANGED << semaphore, calls >>
              ELSE /\ prompt' = [prompt EXCEPT ![i] =
                                    Some(build_slide_prompt(i, style_anchor))]
                   /\ pc' = [pc EXCEPT ![i] = "calling"]
                   /\ calls' = [calls EXCEPT ![i] = @ + 1]
                   /\ semaphore' = semaphore - 1
                   /\ UNCHANGED << task_result, attempt, finished >>
    /\ UNCHANGED << cfg_vars, cache_vars, run_vars, raises, an_vars, store_vars, hash_vars, diff_vars >>

\* a loop that gives up after every failed try
retry_decision_never(error_analysis) == "return_failed"

\* lines 315-326: what the retry loop does with the analysis of a failed
\* try; an empty modified_prompt is falsy
retry_decision(error_analysis) ==
    IF error_analysis.should_retry /\ Truthy(error_analysis.modified_prompt)
    THEN "sleep_and_retry"
    ELSE "return_failed"

\* CacheManager.cache_image as called on line 298: copies the file under
\* the digest of the prompt; a failing copy is logged and swallowed
cache_image(files, p) ==
    IF image_cache_dir THEN files \cup {compute_hash(p)} ELSE files

\* the backend call of group unit i returns or raises: lines 293-338 up to
\* the next suspension
BackendReturn(i, o) ==
    /\ phase # "GenerateAnchor"
    /\ pc[i] = "calling"
    /\ raises' = [raises EXCEPT ![i] = IF o.kind = "raise" THEN @ + 1 ELSE @]
    /\ LET p == Get(prompt[i])
           a == attempt[i]
           ea == analyze_error(o.response, p, a)
       IN  CASE o.kind = "ok" ->
                  /\ image_files' = IF cache_manager
                                    THEN cache_image(image_files, p)
                                    ELSE image_files
                  /\ Finish(i, BatchGenerationResult(i, TRUE, "generated", "None", FALSE, a))
                  /\ semaphore' = semaphore + 1
             [] o.kind = "fail" ->
                  /\ IF retry_decision(ea) = "sleep_and_retry"
                     THEN /\ prompt' = [prompt EXCEPT ![i] = ea.modified_prompt]
                          /\ pc' = [pc EXCEPT ![i] = "sleeping"]
                          /\ UNCHANGED << task_result, semaphore, attempt, finished >>
                     ELSE /\ Finish(i, BatchGenerationResult(i, FALSE, "None", ea.message, FALSE, a))
                          /\ semaphore' = semaphore + 1
                  /\ UNCHANGED image_files
             [] o.kind = "raise" ->
                  /\ IF a = max_retries - 1
                     THEN /\ Finish(i, BatchGenerationResult(i, FALSE, "None", "exception", FALSE, a))
                          /\ semaphore' = semaphore + 1
                     ELSE /\ pc' = [pc EXCEPT ![i] = "sleeping"]
                          /\ UNCHANGED << task_result, semaphore, prompt, attempt, finished >>
                  /\ UNCHANGED image_files
    /\ UNCHANGED << cfg_vars, image_cache_dir, run_vars, waiters, calls, an_vars, store_vars, hash_vars, diff_vars >>

\* the retry loop running one iteration more
Wake_one_more(i) ==
    /\ pc[i] = "sleeping"
    /\ IF attempt[i] + 1 < max_retries + 1
       THEN /\ attempt' = [attempt EXCEPT ![i] = @ + 1]
            /\ pc' = [pc EXCEPT ![i] = "calling"]
            /\ calls' = [calls EXCEPT ![i] = @ + 1]
            /\ UNCHANGED << task_result, semaphore, prompt, finished >>
       ELSE /\ Finish(i, BatchGenerationResult(i, FALSE, "None", "Max retries exceeded",
                                               FALSE, max_retries))
            /\ semaphore' = semaphore + 1
            /\ UNCHANGED calls
    /\ UNCHANGED << cfg_vars, cache_vars, run_vars, waiters, raises, an_vars, store_vars, hash_vars, diff_vars >>

\* the next try started with the attempt number of the previous one
Wake_same_attempt(i) ==
    /\ pc[i] = "sleeping"
    /\ calls[i] < max_retries
    /\ pc' = [pc EXCEPT ![i] = "calling"]
    /\ calls' = [calls EXCEPT ![i] = @ + 1]
    /\ UNCHANGED << attempt, task_result, semaphore, prompt, finished >>
    /\ UNCHANGED << cfg_vars, cache_vars, run_vars, waiters, raises, an_vars, store_vars, hash_vars, diff_vars >>

\* asyncio.sleep of unit i is over: next iteration of the for loop, or
\* lines 340-346 when the loop is exhausted
Wake(i) ==
    /\ pc[i] = "sleeping"
    /\ IF attempt[i] + 1 < max_retries
       THEN /\ attempt' = [attempt EXCEPT ![i] = @ + 1]
            /\ pc' = [pc EXCEPT ![i] = "calling"]
            /\ calls' = [calls EXCEPT ![i] = @ + 1]
            /\ UNCHANGED << task_result, semaphore, prompt, finished >>
       ELSE /\ Finish(i, BatchGenerationResult(i, FALSE, "None", "Max retries exceeded",
                                               FALSE, max_retries))
            /\ semaphore' = semaphore + 1
            /\ UNCHANGED calls
    /\ UNCHANGED << cfg_vars, cache_vars, run_vars, waiters, raises, an_vars, store_vars, hash_vars, diff_vars >>

\* gather has all its results: lines 153-164
Aggregate ==
    /\ phase = "GenerateGroups"
    /\ \A k \in 1..Len(tasks) : pc[tasks[k]] = "done"
    /\ results' = sort_by_slide_index(results \o gathered(tasks, task_result))
    /\ phase' = "Done"
    /\ UNCHANGED << cfg_vars, cache_vars, anchor_index, style_anchor, tasks,
                    task_vars, hist_vars, an_vars, store_vars, hash_vars, diff_vars >>

\* gather re-raises the exception of a task: generate_with_style_consistency
\* raises; the other tasks keep running
RunRaise ==
    /\ phase = "GenerateGroups"
    /\ \E k \in 1..Len(tasks) : pc[tasks[k]] = "raised"
    /\ phase' = "Raised"
    /\ UNCHANGED << cfg_vars, cache_vars, anchor_index, style_anchor, results,
                    tasks, task_vars, hist_vars, an_vars, store_vars, hash_vars, diff_vars >>

Next ==
    \/ clear_cache
    \/ StartRun
    \/ \E o \in BackendOutcomes(backend_failure) : AnchorReturn(o)
    \/ Admit
    \/ \E i \in Units(slides) : BackendHang(i)
    \/ \E i \in Units(slides), o \in BackendOutcomes(backend_failure) : BackendReturn(i, o)
    \/ \E i \in Units(slides) : Wake(i)
    \/ Aggregate
    \/ RunRaise

Spec == Init /\ [][Next]_vars


\* ------------------------------------------------- analyze_error on its own
\* status codes and message contents handed to analyze_error
ErrorCodes == {MISSING_CODE, 0, 5, 399, 400, 429, 500, 599, 600}

ErrorResponses ==
    {Failure(k, c, m, {}) :
        k \in {{"code", "message"}, {"code"}, {"message"}, {"error"}},
        c \in ErrorCodes, m \in SUBSET MsgTokens}

AnalyzedPrompts ==
    { build_slide_prompt(0, None),
      build_slide_prompt(0, Some(extract_style_description(0))),
      [unit |-> 0, anchored |-> FALSE, lines |-> << "sens", "title", "long" >>],
      [unit |-> 0, anchored |-> FALSE, lines |-> << "long" >>],
      [unit |-> 0, anchored |-> FALSE, lines |-> << "blank" >>] }

InitAnalyze ==
    /\ slides = << "title" >>
    /\ max_concurrent = 1
    /\ cache_manager = FALSE
    /\ backend_failure = Failure({"error"}, 0, {}, {"timeout"})
    /\ image_cache_dir = TRUE
    /\ image_files = {}
    /\ IdleRun
    /\ an_input \in {Some([error_response |-> r, original_prompt |-> p, attempt |-> a]) :
                        r \in ErrorResponses, p \in AnalyzedPrompts, a \in 0..MaxAttempt}
    /\ an_output = None
    /\ IdleStore
    /\ IdleHash
    /\ IdleDiff

\* one call of SmartErrorHandler.analyze_error
Analyze ==
    /\ ~IsNone(an_input)
    /\ IsNone(an_output)
    /\ an_output' = Some(analyze_error(Get(an_input).error_response,
                                       Get(an_input).original_prompt,
                                       Get(an_input).attempt))
    /\ UNCHANGED << cfg_vars, cache_vars, run_vars, task_vars, hist_vars, an_input, store_vars, hash_vars, diff_vars >>

NextAnalyze == Analyze

SpecAnalyze == InitAnalyze /\ [][NextAnalyze]_vars


\* ------------------------------- the retry loop's step after a failed try
\* failed tries of the loop: a failure dict, the request of the try, and
\* the loop index
InitDecide ==
    /\ InitAnalyze
    /\ Get(an_input).attempt < max_retries

\* lines 309-326 of _generate_single_slide for one failed try
Decide ==
    /\ ~IsNone(an_input)
    /\ IsNone(an_output)
    /\ LET error_analysis == analyze_error(Get(an_input).error_response,
                                           Get(an_input).original_prompt,
                                           Get(an_input).attempt)
       IN  an_output' = Some([analysis |-> error_analysis,
                              decision |-> retry_decision(error_analysis)])
    /\ UNCHANGED << cfg_vars, cache_vars, run_vars, task_vars, hist_vars, an_input,
                    store_vars, hash_vars, diff_vars >>

NextDecide == Decide

SpecDecide == InitDecide /\ [][NextDecide]_vars

\* ------------------------------------------------------- the CacheManager
\* The cache directory is the one of image_cache_dir: PPTGenerator.clear_cache
\* removes outlines/, images/ and metadata.json together.  The index file
\* metadata.json is written and never read back while the manager lives, so
\* only self.metadata is kept, and of its entries the "type" (nothing reads
\* "created_at" and "file").
InitCache ==
    /\ slides = << "title" >>
    /\ max_concurrent = 1
    /\ cache_manager = TRUE
    /\ backend_failure = Failure({"error"}, 0, {}, {"timeout"})
    /\ image_cache_dir = TRUE
    /\ image_files = {}
    /\ IdleRun
    /\ an_input = None
    /\ an_output = None
    /\ IdleStore
    /\ IdleHash
    /\ IdleDiff

cache_frame == << cfg_vars, cache_vars, run_vars, task_vars, hist_vars, an_vars, hash_vars, diff_vars >>

\* time passes; the caller has taken the value of the last call
Tick ==
    /\ now < MaxTime
    /\ now' = now + 1
    /\ ret' = NoCall
    /\ UNCHANGED << cache_frame, outline_store, image_store, metadata,
                    stored_outline, stored_image >>

\* self.metadata as _load_metadata returns it when metadata.json holds a
\* JSON value without the key "entries" (the file is returned as loaded)
NoEntries == << >>

\* self.metadata["entries"][key] = entry: raises KeyError when the loaded
\* index has no "entries"
index_raises(index) == index = NoEntries

set_entry(index, key, entry) == [index EXCEPT ![key] = Some(entry)]

\* CacheManager.cache_outline; fault names the statement that fails:
\* "open" (line 150), "dump" (line 151, the file is already truncated),
\* "metadata" (line 68, swallowed by _save_metadata itself)
cache_outline(args, outline, fault) ==
    LET cache_key == fingerprint(args)
        cache_data == [cached_at |-> now, outline |-> outline, readable |-> TRUE]
        partial == [cached_at |-> 0, outline |-> "partial", readable |-> FALSE]
    IN  /\ IF ~image_cache_dir \/ fault = "open"
           THEN UNCHANGED << outline_store, metadata, stored_outline >>
           ELSE IF fault = "dump"
           THEN /\ outline_store' = [outline_store EXCEPT ![cache_key] = Some(partial)]
                /\ stored_outline' = [stored_outline EXCEPT ![cache_key] = None]
                /\ UNCHANGED metadata
           ELSE /\ outline_store' = [outline_store EXCEPT ![cache_key] = Some(cache_data)]
                /\ metadata' = IF index_raises(metadata)
                               THEN metadata
                               ELSE set_entry(metadata, cache_key, [type |-> "outline"])
                /\ stored_outline' = [stored_outline EXCEPT ![cache_key] =
                                          Some([at |-> now, payload |-> outline])]
        /\ ret' = Returned("cache_outline", Some(cache_key), fault, FALSE, None, None)
        /\ UNCHANGED << cache_frame, now, image_store, stored_image >>

\* expiry with >= in place of >
expired_at_ttl(age) == age >= cache_ttl

\* does an entry of this age count as expired (lines 110, 185)
expired(age) == age > cache_ttl

\* CacheManager.get_cached_outline; fault "read": open or json.load raises
get_cached_outline(args, fault) ==
    LET cache_key == fingerprint(args)
        file == outline_store[cache_key]
    IN  /\ IF IsNone(file)
           THEN /\ ret' = Returned("get_cached_outline", Some(cache_key), fault, FALSE, None, None)
                /\ UNCHANGED outline_store
           ELSE IF fault = "read" \/ ~Get(file).readable
           THEN /\ ret' = Returned("get_cached_outline", Some(cache_key), fault, FALSE, None, None)
                /\ UNCHANGED outline_store
           ELSE IF expired(now - Get(file).cached_at)
           THEN /\ outline_store' = [outline_store EXCEPT ![cache_key] = None]
                /\ ret' = Returned("get_cached_outline", Some(cache_key), fault, FALSE, None, None)
           ELSE /\ ret' = Returned("get_cached_outline", Some(cache_key), fault, FALSE,
                                   Some(Get(file).outline), None)
                /\ UNCHANGED outline_store
        /\ UNCHANGED << cache_frame, now, image_store, metadata, stored_outline, stored_image >>

\* StoreImage without the try/except of cache_image: a failing copy raises
\* into _generate_single_slide
StoreImage_unguarded(p, image, fault) ==
    LET prompt_hash == fingerprint(<< p >>)
        name == [hash |-> prompt_hash, ext |-> image.ext]
        result == BatchGenerationResult(0, TRUE, "generated", "None", FALSE, 0)
    IN  /\ IF ~image_cache_dir \/ fault = "copy"
           THEN /\ ret' = Returned("cache_image", Some(prompt_hash), fault, TRUE, None, None)
                /\ UNCHANGED << image_store, metadata, stored_image >>
           ELSE /\ image_store' = [image_store EXCEPT ![name] =
                                       Some([mtime |-> image.mtime, content |-> image.content])]
                /\ metadata' = [metadata EXCEPT ![prompt_hash] = Some([type |-> "image"])]
                /\ stored_image' = [stored_image EXCEPT ![prompt_hash] =
                                        Some([at |-> now, payload |-> image.content])]
                /\ ret' = Returned("cache_image", Some(prompt_hash), fault, FALSE,
                                   Some("cache_path"), Some(result))
        /\ UNCHANGED << cache_frame, now, outline_store, stored_outline >>

\* Lines 293-306 of _generate_single_slide with CacheManager.cache_image:
\* the backend returned success with the file image (its mtime, content and
\* extension), the prompt was p.  fault: "copy" (line 212), "metadata"
\* (line 68).  shutil.copy2 copies the file with its modification time.
StoreImage(p, image, fault) ==
    LET prompt_hash == fingerprint(<< p >>)
        name == [hash |-> prompt_hash, ext |-> image.ext]
        result == BatchGenerationResult(0, TRUE, "generated", "None", FALSE, 0)
    IN  /\ IF ~image_cache_dir \/ fault = "copy"
           THEN /\ ret' = Returned("cache_image", Some(prompt_hash), fault, FALSE,
                                   Some("image_path"), Some(result))
                /\ UNCHANGED << image_store, metadata, stored_image >>
           ELSE /\ image_store' = [image_store EXCEPT ![name] =
                                       Some([mtime |-> image.mtime, content |-> image.content])]
                /\ metadata' = IF index_raises(metadata)
                               THEN metadata
                               ELSE set_entry(metadata, prompt_hash, [type |-> "image"])
                /\ stored_image' = [stored_image EXCEPT ![prompt_hash] =
                                        Some([at |-> now, payload |-> image.content])]
                /\ ret' = Returned("cache_image", Some(prompt_hash), fault, FALSE,
                                   IF index_raises(metadata)
                                   THEN Some("image_path")
                                   ELSE Some("cache_path"),
                                   Some(result))
        /\ UNCHANGED << cache_frame, now, outline_store, stored_outline >>

\* CacheManager.get_cached_image; os.listdir gives the names in arbitrary
\* order and raises when the directory is gone
get_cached_image(prompt_hash) ==
    LET matches == {n \in ImageNames : n.hash = prompt_hash /\ ~IsNone(image_store[n])}
    IN  /\ IF ~image_cache_dir
           THEN /\ ret' = Returned("get_cached_image", Some(prompt_hash), "none", TRUE, None, None)
                /\ UNCHANGED image_store
           ELSE IF matches = {}
           THEN /\ ret' = Returned("get_cached_image", Some(prompt_hash), "none", FALSE, None, None)
                /\ UNCHANGED image_store
           ELSE \E n \in matches :
                   IF expired(now - Get(image_store[n]).mtime)
                   THEN /\ image_store' = [image_store EXCEPT ![n] = None]
                        /\ ret' = Returned("get_cached_image", Some(prompt_hash), "none",
                                           FALSE, None, None)
                   ELSE /\ ret' = Returned("get_cached_image", Some(prompt_hash), "none",
                                           FALSE, Some(Get(image_store[n]).content), None)
                        /\ UNCHANGED image_store
        /\ UNCHANGED << cache_frame, now, outline_store, metadata, stored_outline, stored_image >>

NextCache ==
    \/ Tick
    \/ \E args \in OutlineArgs, o \in Outlines, fault \in {"none", "open", "dump", "metadata"} :
          cache_outline(args, o, fault)
    \/ \E args \in OutlineArgs, fault \in {"none", "read"} : get_cached_outline(args, fault)
    \/ \E p \in Prompts, t \in 0..now, c \in ImageContents, e \in Exts,
          fault \in {"none", "copy", "metadata"} :
          StoreImage(p, [mtime |-> t, content |-> c, ext |-> e], fault)
    \/ \E d \in ImageDigests : get_cached_image(d)
    \/ clear_cache

SpecCache == InitCache /\ [][NextCache]_vars

\* ------------------------------------------ the CacheManager and its index
\* CacheManager.cleanup_expired: removes the outline files that can be read
\* and are expired, and the image files whose mtime is expired; the index
\* is not touched.  iterdir raises when the image directory is gone.
cleanup_expired ==
    LET old_outlines == {k \in OutlineDigests :
                            /\ ~IsNone(outline_store[k])
                            /\ Get(outline_store[k]).readable
                            /\ expired(now - Get(outline_store[k]).cached_at)}
        old_images == {n \in ImageNames :
                          /\ ~IsNone(image_store[n])
                          /\ expired(now - Get(image_store[n]).mtime)}
        stats == [outlines_removed |-> Cardinality(old_outlines),
                  images_removed |-> Cardinality(old_images)]
    IN  /\ IF ~image_cache_dir
           THEN /\ ret' = Returned("cleanup_expired", None, "none", TRUE, None, None)
                /\ UNCHANGED << outline_store, image_store >>
           ELSE /\ outline_store' = [k \in OutlineDigests |->
                                        IF k \in old_outlines THEN None ELSE outline_store[k]]
                /\ image_store' = [n \in ImageNames |->
                                      IF n \in old_images THEN None ELSE image_store[n]]
                /\ ret' = Returned("cleanup_expired", None, "none", FALSE, Some(stats), None)
        /\ UNCHANGED << cache_frame, now, metadata, stored_outline, stored_image >>

\* CacheManager.clear_all: removes the cache directory, creates the two
\* directories again and resets the index
clear_all ==
    /\ image_cache_dir' = TRUE
    /\ image_files' = {}
    /\ outline_store' = [k \in OutlineDigests |-> None]
    /\ image_store' = [n \in ImageNames |-> None]
    /\ metadata' = [k \in OutlineDigests \cup ImageDigests |-> None]
    /\ stored_outline' = [k \in OutlineDigests |-> None]
    /\ stored_image' = [k \in ImageDigests |-> None]
    /\ ret' = Returned("clear_all", None, "none", FALSE, None, None)
    /\ UNCHANGED << cfg_vars, run_vars, task_vars, hist_vars, an_vars, hash_vars, diff_vars, now >>

\* CacheManager.get_cache_stats: counts of the files in the two directories
get_cache_stats ==
    /\ ret' = IF ~image_cache_dir
              THEN Returned("get_cache_stats", None, "none", TRUE, None, None)
              ELSE Returned("get_cache_stats", None, "none", FALSE,
                            Some([outline_count |->
                                      Cardinality({k \in OutlineDigests : ~IsNone(outline_store[k])}),
                                  image_count |->
                                      Cardinality({n \in ImageNames : ~IsNone(image_store[n])})]),
                            None)
    /\ UNCHANGED << cache_frame, now, outline_store, image_store, metadata,
                    stored_outline, stored_image >>

\* Indexes that _load_metadata can return for an empty cache directory: the
\* default one, one with entries whose files are gone, one without the key
\* "entries"
LoadedIndexes ==
    { [k \in OutlineDigests \cup ImageDigests |-> None],
      [k \in OutlineDigests \cup ImageDigests |->
          IF k \in OutlineDigests THEN Some([type |-> "outline"])
          ELSE Some([type |-> "image"])],
      NoEntries }

\* a CacheManager constructed on a cache directory whose metadata.json was
\* left by an earlier process
InitIndex ==
    /\ slides = << "title" >>
    /\ max_concurrent = 1
    /\ cache_manager = TRUE
    /\ backend_failure = Failure({"error"}, 0, {}, {"timeout"})
    /\ image_cache_dir = TRUE
    /\ image_files = {}
    /\ IdleRun
    /\ an_input = None
    /\ an_output = None
    /\ now = 0
    /\ outline_store = [k \in OutlineDigests |-> None]
    /\ image_store = [n \in ImageNames |-> None]
    /\ metadata \in LoadedIndexes
    /\ ret = NoCall
    /\ stored_outline = [k \in OutlineDigests |-> None]
    /\ stored_image = [k \in ImageDigests |-> None]
    /\ IdleHash
    /\ IdleDiff

NextIndex ==
    \/ Tick
    \/ \E args \in OutlineArgs, o \in Outlines : cache_outline(args, o, "none")
    \/ \E args \in OutlineArgs : get_cached_outline(args, "none")
    \/ \E p \in Prompts, c \in ImageContents, e \in Exts :
          StoreImage(p, [mtime |-> now, content |-> c, ext |-> e], "none")
    \/ \E d \in ImageDigests : get_cached_image(d)
    \/ cleanup_expired
    \/ clear_all
    \/ get_cache_stats

SpecIndex == InitIndex /\ [][NextIndex]_vars

\* ----------------------------- the plan stages of PPTGenerator.generate_ppt_async
\* what the outline generator does in one call of generate_ppt_async: the
\* two-stage generation returns a plan, or it raises and the single-stage
\* generation returns one, or both raise
GeneratorOutcomes == {"two_stage", "single_stage", "raise"}

\* generate_ppt_async, stages 1 and 2 (lines 181-218): the cached plan when
\* use_cache is set and the lookup hits; else the plan of the two-stage
\* generation, stored when use_cache is set; else, the two-stage generation
\* having raised, the plan of the single-stage generation, which the except
\* branch does not store.  ret.fault names where the plan came from.
plan_stages(args, use_cache, outcome, plan) ==
    LET cache_key == fingerprint(args)
        file == outline_store[cache_key]
        usable == ~IsNone(file) /\ Get(file).readable
        hit == use_cache /\ usable /\ ~expired(now - Get(file).cached_at)
        evicted == use_cache /\ usable /\ expired(now - Get(file).cached_at)
        cache_data == [cached_at |-> now, outline |-> plan, readable |-> TRUE]
        store == use_cache /\ outcome = "two_stage"
    IN  /\ IF hit
           THEN /\ ret' = Returned("generate_ppt_async", Some(cache_key), "cache", FALSE,
                                   Some(Get(file).outline), Some([use_cache |-> use_cache]))
                /\ UNCHANGED << outline_store, metadata, stored_outline >>
           ELSE /\ outline_store' =
                     IF store THEN [outline_store EXCEPT ![cache_key] = Some(cache_data)]
                     ELSE IF evicted THEN [outline_store EXCEPT ![cache_key] = None]
                     ELSE outline_store
                /\ metadata' = IF store /\ ~index_raises(metadata)
                               THEN set_entry(metadata, cache_key, [type |-> "outline"])
                               ELSE metadata
                /\ stored_outline' =
                     IF store
                     THEN [stored_outline EXCEPT ![cache_key] =
                              Some([at |-> now, payload |-> plan])]
                     ELSE stored_outline
                /\ ret' = Returned("generate_ppt_async", Some(cache_key), outcome,
                                   outcome = "raise",
                                   IF outcome = "raise" THEN None ELSE Some(plan),
                                   Some([use_cache |-> use_cache]))
        /\ UNCHANGED << cache_frame, now, image_store, stored_image >>

NextPlan ==
    \/ Tick
    \/ \E args \in OutlineArgs, use_cache \in BOOLEAN, outcome \in GeneratorOutcomes,
          plan \in Outlines :
          plan_stages(args, use_cache, outcome, plan)

SpecPlan == InitCache /\ [][NextPlan]_vars

\* ------------------------------------------------------- get_changed_slides
\* A slide of an outline: the four compared fields and one more.  A field
\* holds a value, the value None ("None"), or is not in the dict ("absent").
key_fields == << "title", "slide_type", "key_points", "content_summary" >>

BaseSlide ==
    [title |-> "t", slide_type |-> "content", key_points |-> "k",
     content_summary |-> "s", visual_description |-> "v"]

DiffSlides ==
    { BaseSlide,
      [BaseSlide EXCEPT !.title = "t2"],
      [BaseSlide EXCEPT !.title = "None"],
      [BaseSlide EXCEPT !.title = "absent"],
      [BaseSlide EXCEPT !.slide_type = "title"],
      [BaseSlide EXCEPT !.key_points = "k2"],
      [BaseSlide EXCEPT !.content_summary = "s2"],
      [BaseSlide EXCEPT !.visual_description = "v2"] }

DiffPlans == UNION {[1..n -> DiffSlides] : n \in 0..MaxPlanLen}

\* dict.get(field): None for a missing key
dict_get(slide, field) == IF slide[field] = "absent" THEN "None" ELSE slide[field]

\* _slide_changed comparing the first three key fields only
slide_changed_three_fields(old_slide, new_slide) ==
    \E f \in 1..3 :
        dict_get(old_slide, key_fields[f]) # dict_get(new_slide, key_fields[f])

\* _slide_changed: some key field has different values in the two slides
slide_changed(old_slide, new_slide) ==
    \E f \in 1..Len(key_fields) :
        dict_get(old_slide, key_fields[f]) # dict_get(new_slide, key_fields[f])

\* the loop of get_changed_slides from index i on, changed_indices being
\* the list built so far
RECURSIVE changed_from(_, _, _, _)
changed_from(old_slides, new_slides, i, changed_indices) ==
    IF i >= Len(new_slides) THEN changed_indices
    ELSE IF i >= Len(old_slides)
    THEN changed_from(old_slides, new_slides, i + 1, Append(changed_indices, i))
    ELSE IF slide_changed(old_slides[i + 1], new_slides[i + 1])
    THEN changed_from(old_slides, new_slides, i + 1, Append(changed_indices, i))
    ELSE changed_from(old_slides, new_slides, i + 1, changed_indices)

get_changed_slides(old_outline, new_outline) ==
    changed_from(old_outline, new_outline, 0, << >>)

InitDiff ==
    /\ slides = << "title" >>
    /\ max_concurrent = 1
    /\ cache_manager = TRUE
    /\ backend_failure = Failure({"error"}, 0, {}, {"timeout"})
    /\ image_cache_dir = TRUE
    /\ image_files = {}
    /\ IdleRun
    /\ an_input = None
    /\ an_output = None
    /\ IdleStore
    /\ IdleHash
    /\ diff_input \in {Some([old_outline |-> o, new_outline |-> n]) :
                          o \in DiffPlans, n \in DiffPlans}
    /\ diff_output = None

\* one call of CacheManager.get_changed_slides
ChangedSlides ==
    /\ ~IsNone(diff_input)
    /\ IsNone(diff_output)
    /\ diff_output' = Some(get_changed_slides(Get(diff_input).old_outline,
                                              Get(diff_input).new_outline))
    /\ UNCHANGED << cfg_vars, cache_vars, run_vars, task_vars, hist_vars, an_vars,
                    store_vars, hash_vars, diff_input >>

NextDiff == ChangedSlides

SpecDiff == InitDiff /\ [][NextDiff]_vars

\* ------------------------------------------------------------ _compute_hash
Chars == {"a", "|"}
Strings == UNION {[1..n -> Chars] : n \in 0..MaxStrLen}
PartTuples == UNION {[1..n -> Strings] : n \in 1..MaxParts}

InitHash ==
    /\ slides = << "title" >>
    /\ max_concurrent = 1
    /\ cache_manager = TRUE
    /\ backend_failure = Failure({"error"}, 0, {}, {"timeout"})
    /\ image_cache_dir = TRUE
    /\ image_files = {}
    /\ IdleRun
    /\ an_input = None
    /\ an_output = None
    /\ IdleStore
    /\ hash_input \in {Some([args_1 |-> t1, args_2 |-> t2]) : t1 \in PartTuples, t2 \in PartTuples}
    /\ hash_output = None
    /\ IdleDiff

\* _compute_hash on each of the two tuples
ComputeHash ==
    /\ ~IsNone(hash_input)
    /\ IsNone(hash_output)
    /\ hash_output' = Some([combined_1 |-> combined(Get(hash_input).args_1),
                            combined_2 |-> combined(Get(hash_input).args_2),
                            hash_1 |-> fingerprint(Get(hash_input).args_1),
                            hash_2 |-> fingerprint(Get(hash_input).args_2)])
    /\ UNCHANGED << cfg_vars, cache_vars, run_vars, task_vars, hist_vars, an_vars,
                    store_vars, hash_input, diff_vars >>

NextHash == ComputeHash

SpecHash == InitHash /\ [][NextHash]_vars

FairSpec == Spec /\ WF_vars(Next)

\* ------------------------------------------------ PPTGenerator's run report
\* cache_hits of generate_ppt_async: the slides_data entries, one per batch
\* result, that have from_cache set
count_cache_hits(batch_results) ==
    Cardinality({k \in 1..Len(batch_results) : batch_results[k].from_cache})

\* generate_ppt_async after generate_with_style_consistency has returned
\* batch_results without raising: generation_info as initialised (the
\* except branch, the only place that clears style_anchored, is not taken)
\* and the cache_hits key, set only for a positive count
generate_ppt_result(batch_results) ==
    LET generation_info == [mode |-> "enhanced", two_stage |-> TRUE,
                            style_anchored |-> TRUE]
        cache_hits == count_cache_hits(batch_results)
    IN  IF cache_hits > 0
        THEN [generation_info |-> generation_info, cache_hits |-> cache_hits]
        ELSE [generation_info |-> generation_info]

\* ------------------------------------------- a backend that always answers
\* the run with a backend whose every call returns or raises
NextReturns ==
    \/ clear_cache
    \/ StartRun
    \/ \E o \in BackendOutcomes(backend_failure) : AnchorReturn(o)
    \/ Admit
    \/ \E i \in Units(slides), o \in BackendOutcomes(backend_failure) : BackendReturn(i, o)
    \/ \E i \in Units(slides) : Wake(i)
    \/ Aggregate
    \/ RunRaise

SpecReturns == Init /\ [][NextReturns]_vars

\* ------------------------------------- several runs on one BatchImageGenerator
\* PPTGenerator builds one BatchImageGenerator in its constructor and calls
\* generate_with_style_consistency on it for every presentation.  The next
\* call starts when the previous one has returned: its locals are new, the
\* attributes of the generator are what the previous call left.  The runs
\* here have no cache manager and the same arguments.
NewRun ==
    /\ phase = "Done"
    /\ phase' = "Idle"
    /\ anchor_index' = -1
    /\ results' = << >>
    /\ tasks' = << >>
    /\ pc' = [i \in Units(slides) |-> "none"]
    /\ attempt' = [i \in Units(slides) |-> 0]
    /\ prompt' = [i \in Units(slides) |-> NoPrompt]
    /\ task_result' = [i \in Units(slides) |-> NoResult]
    /\ semaphore' = 0
    /\ waiters' = << >>
    /\ calls' = [i \in Units(slides) |-> 0]
    /\ raises' = [i \in Units(slides) |-> 0]
    /\ finished' = << >>
    /\ UNCHANGED << cfg_vars, cache_vars, style_anchor, an_vars, store_vars, hash_vars, diff_vars >>

\* BatchImageGenerator.reset_style_anchor, called by the owner of the
\* generator between two runs
reset_style_anchor ==
    /\ phase = "Idle"
    /\ ~IsNone(style_anchor)
    /\ style_anchor' = None
    /\ UNCHANGED << cfg_vars, cache_vars, phase, anchor_index, results, tasks,
                    task_vars, hist_vars, an_vars, store_vars, hash_vars, diff_vars >>

InitRuns ==
    /\ Init
    /\ ~cache_manager

NextRuns ==
    \/ StartRun
    \/ \E o \in BackendOutcomes(backend_failure) : AnchorReturn(o)
    \/ Admit
    \/ \E i \in Units(slides) : BackendHang(i)
    \/ \E i \in Units(slides), o \in BackendOutcomes(backend_failure) : BackendReturn(i, o)
    \/ \E i \in Units(slides) : Wake(i)
    \/ Aggregate
    \/ NewRun
    \/ reset_style_anchor

SpecRuns == InitRuns /\ [][NextRuns]_vars

\* =================================================================== claims
GroupUnits == {i \in Units(slides) : i # anchor_index}

Resolved(i) == pc[i] = "done"

ResultOf(i) == Get(task_result[i])

AnchorResolved == phase \in {"GenerateGroups", "Done", "Raised"} /\ anchor_index >= 0

\* the per-kind retry caps as documented
DocumentedCap(kind) ==
    CASE kind = "content_policy" -> 2
      [] kind = "timeout" -> 3
      [] kind = "rate_limit" -> 5
      [] kind = "api_error" -> 2
      [] kind = "network_error" -> 3
      [] kind = "unknown" -> 2

\* C1: when generate_with_style_consistency returns for a list of N >= 1
\* units, the list has exactly N results and every index 0..N-1 occurs in it
\* exactly once; and whatever the backend does (success, failure dict,
\* exception), the run does return: it raises for a non-empty list only
\* when the cache lookup itself raised.
C1_NoUnitDropped ==
    /\ phase = "Done" =>
         /\ Len(results) = Len(slides)
         /\ \A i \in Units(slides) :
              Cardinality({k \in 1..Len(results) : results[k].slide_index = i}) = 1
    /\ (phase = "Raised" /\ slides # << >>) => (cache_manager /\ ~image_cache_dir)

\* a run of three units or more whose backend failed every call with an
\* Unknown-kind error has returned
C1_Witness ==
    /\ phase = "Done"
    /\ Len(slides) >= 3
    /\ KindOf(backend_failure) = "unknown"
    /\ \A i \in Units(slides) : raises[i] = 0 /\ ~ResultOf(i).success

\* C2: the returned list is in ascending slide_index order, whatever the
\* order in which the units' generations completed and wherever the anchor
\* sits.
C2_SortedByIndex ==
    phase = "Done" =>
        \A k \in 1..(Len(results) - 1) :
            results[k].slide_index < results[k + 1].slide_index

\* the anchor is not the first slide and the group units completed in
\* descending index order
C2_Witness ==
    /\ phase = "Done"
    /\ Len(slides) >= 3
    /\ anchor_index = 1
    /\ Len(finished) >= 3
    /\ finished[2] > finished[3]

\* C3: at most max_concurrent backend calls are in flight at any time.
C3_ConcurrencyBound == Cardinality(InFlight) <= max_concurrent

\* the bound is reached in the group phase while another unit waits
C3_Witness ==
    /\ phase = "GenerateGroups"
    /\ Cardinality(InFlight \ {anchor_index}) = max_concurrent
    /\ waiters # << >>

\* C4: while the anchor is being generated no other unit has started or
\* called the backend, and whenever another unit has started the anchor's
\* generation is over.
C4_AnchorBarrier ==
    \A i \in Units(slides) :
        (i # anchor_index /\ (pc[i] \notin {"none", "waiting"} \/ calls[i] > 0))
            => (AnchorResolved /\ Resolved(anchor_index))

\* a group unit calls the backend after the anchor ended in failure
C4_Witness ==
    /\ AnchorResolved
    /\ ~ResultOf(anchor_index).success
    /\ \E i \in GroupUnits : pc[i] = "calling"

\* C5: a group unit whose backend calls all failed with kind K has its
\* terminal failed result only after the attempt whose number is the
\* documented cap of K, that is after cap + 1 calls.
C5_RetriedUntilCap ==
    \A i \in Units(slides) :
        (i # anchor_index /\ Resolved(i) /\ ~ResultOf(i).success /\ raises[i] = 0)
            => calls[i] = DocumentedCap(KindOf(backend_failure)) + 1

\* C6: the anchor goes through the retry loop: it ends failed only after
\* more than one backend call.
C6_AnchorRetried ==
    (AnchorResolved /\ ~ResultOf(anchor_index).success) => calls[anchor_index] >= 2

\* C7: analyze_error answers should_retry exactly below the documented cap
\* of the classified kind, and at or above it answers USE_FALLBACK, ABORT
\* for NetworkError.
C7_RetryBelowCapOnly ==
    ~IsNone(an_output) =>
        LET in == Get(an_input)
            out == Get(an_output)
            k == KindOf(in.error_response)
        IN  /\ out.error_type = k
            /\ out.should_retry <=> (in.attempt < DocumentedCap(k))
            /\ ~out.should_retry =>
                 out.recovery_action = IF k = "network_error" THEN "abort"
                                       ELSE "use_fallback"

\* a RateLimit failure at attempt 4 is still retried
C7_Witness ==
    /\ ~IsNone(an_output)
    /\ Get(an_input).attempt = 4
    /\ Get(an_output).error_type = "rate_limit"
    /\ Get(an_output).should_retry

\* C8: a run does not return normally once the NetworkError of a unit has
\* persisted through that unit's whole recovery: it stops with a run-level
\* failure.
C8_AbortStopsRun ==
    phase = "Done" =>
        \A i \in GroupUnits :
            ~(/\ KindOf(backend_failure) = "network_error"
              /\ ~ResultOf(i).success
              /\ raises[i] = 0)

\* C9: generate_with_style_consistency does not raise because of what
\* happened to one unit.
C9_UnitFailuresAbsorbed == slides # << >> => phase # "Raised"

\* C10: a backend call that never returns does not keep the run from
\* ending.
C10_RunEnds == <>(phase \in {"Done", "Raised"})

\* C11: once a group unit has been generated by the backend and stored with
\* a cache manager attached, the store holds a file under the fingerprint
\* that the orchestrator's lookup computes for that unit, so that a later
\* request for the unit is answered from the cache.
C11_StoredUnderLookupKey ==
    \A i \in Units(slides) :
        (/\ i # anchor_index
         /\ cache_manager /\ image_cache_dir
         /\ Resolved(i)
         /\ ResultOf(i).success /\ ~ResultOf(i).from_cache)
            => compute_hash(slide_key_text(i)) \in image_files

\* files of the image cache whose name starts with the digest d
ImageFilesOf(d) == {n \in ImageNames : n.hash = d /\ ~IsNone(image_store[n])}

\* C12: a lookup of an outline key whose last store was at time T returns
\* the stored outline at any time up to T + ttl; later than T + ttl it
\* returns absent and the entry file is gone.
C12_OutlineTtl ==
    (/\ ret.op = "get_cached_outline"
     /\ ret.fault = "none"
     /\ ~IsNone(stored_outline[Get(ret.key)]))
        => LET h == Get(stored_outline[Get(ret.key)])
           IN  /\ now <= h.at + cache_ttl => ret.value = Some(h.payload)
               /\ now > h.at + cache_ttl =>
                    (ret.value = None /\ IsNone(outline_store[Get(ret.key)]))

\* a lookup exactly at T + ttl, T > 0, returns the outline stored at T
C12_Witness ==
    /\ ret.op = "get_cached_outline"
    /\ ~IsNone(stored_outline[Get(ret.key)])
    /\ Get(stored_outline[Get(ret.key)]).at > 0
    /\ now = Get(stored_outline[Get(ret.key)]).at + cache_ttl
    /\ ret.value = Some(Get(stored_outline[Get(ret.key)]).payload)

\* C13: a lookup of an image fingerprint whose last store was at time T
\* returns the stored image at any time up to T + ttl, whatever the age of
\* the source file; later it returns absent and the cached file is gone.
C13_ImageTtl ==
    (/\ ret.op = "get_cached_image"
     /\ ~ret.raised
     /\ ~IsNone(stored_image[Get(ret.key)]))
        => LET h == Get(stored_image[Get(ret.key)])
           IN  /\ now <= h.at + cache_ttl => ret.value = Some(h.payload)
               /\ now > h.at + cache_ttl =>
                    (ret.value = None /\ ImageFilesOf(Get(ret.key)) = {})

\* C14: after a store under a fingerprint the cache holds exactly one entry
\* for it, with the payload of the latest store and the time of the latest
\* store as its timestamp (until a lookup removes it as expired).
C14_OneFreshEntry ==
    /\ \A k \in OutlineDigests :
         ~IsNone(stored_outline[k]) =>
            LET h == Get(stored_outline[k])
            IN  \/ outline_store[k] = Some([cached_at |-> h.at, outline |-> h.payload,
                                            readable |-> TRUE])
                \/ (now > h.at + cache_ttl /\ IsNone(outline_store[k]))
    /\ \A d \in ImageDigests :
         ~IsNone(stored_image[d]) =>
            LET h == Get(stored_image[d])
            IN  \/ /\ Cardinality(ImageFilesOf(d)) = 1
                   /\ \A n \in ImageFilesOf(d) :
                        image_store[n] = Some([mtime |-> h.at, content |-> h.payload])
                \/ (now > h.at + cache_ttl /\ ImageFilesOf(d) = {})

\* C15: two different argument tuples never give the same combined string.
C15_NoAmbiguity ==
    ~IsNone(hash_output) =>
        (Get(hash_input).args_1 # Get(hash_input).args_2
            => Get(hash_output).combined_1 # Get(hash_output).combined_2)

\* C16: a cache lookup never raises; a store it cannot read is a miss.
C16_ReadFailureIsMiss ==
    ret.op \in {"get_cached_outline", "get_cached_image"} => ~ret.raised

C18_NamespacesDisjoint ==
    /\ \A k \in OutlineDigests :
         (~IsNone(outline_store[k]) /\ Get(outline_store[k]).readable)
            => metadata[k] = Some([type |-> "outline"])
    /\ \A d \in ImageDigests :
         ImageFilesOf(d) # {} => metadata[d] = Some([type |-> "image"])

\* the documented precedence of the classifier
DocumentedKind(code, tokens) ==
    IF code = 5 THEN "content_policy"
    ELSE IF "timeout" \in tokens THEN "timeout"
    ELSE IF "rate_limit" \in tokens THEN "rate_limit"
    ELSE IF "network" \in tokens THEN "network_error"
    ELSE IF code \in 400..599 THEN "api_error"
    ELSE "unknown"

\* C19: the kind that analyze_error reports is the one of the documented
\* precedence: policy code, then timeout token, then rate-limit token, then
\* connectivity token, then a 4xx/5xx code, else Unknown.
C19_ClassifierPrecedence ==
    ~IsNone(an_output) =>
        /\ Get(an_output).error_type \in ErrorTypes
        /\ Get(an_output).error_type =
              DocumentedKind(GetCode(Get(an_input).error_response),
                             GetMessage(Get(an_input).error_response))

\* a 5xx failure whose message has a timeout, a rate-limit and a
\* connectivity token is a Timeout
C19_Witness ==
    /\ ~IsNone(an_output)
    /\ GetCode(Get(an_input).error_response) = 500
    /\ GetMessage(Get(an_input).error_response) = MsgTokens
    /\ Get(an_output).error_type = "timeout"

\* C20: a failure with code 429 (and no timeout token, which comes first)
\* is a RateLimit, whatever its message.
C20_Code429IsRateLimit ==
    (/\ ~IsNone(an_output)
     /\ GetCode(Get(an_input).error_response) = 429
     /\ "timeout" \notin GetMessage(Get(an_input).error_response))
        => Get(an_output).error_type = "rate_limit"

\* the unit the documented rule selects: the first title-like one, else the
\* first one
DocumentedAnchor(sl) ==
    IF \E i \in 1..Len(sl) : sl[i] = "title"
    THEN CHOOSE i \in 0..(Len(sl) - 1) :
            sl[i + 1] = "title" /\ \A j \in 0..(i - 1) : sl[j + 1] # "title"
    ELSE 0

\* C21: the anchor index of a run is the index of the first title-like
\* unit, or 0 when there is none; the anchor's result carries that index and
\* the group phase has every other index and not that one.
C21_AnchorSelection ==
    phase \in {"GenerateAnchor", "GenerateGroups", "Done"} =>
        /\ anchor_index = DocumentedAnchor(slides)
        /\ phase # "GenerateAnchor" =>
             /\ ResultOf(anchor_index).slide_index = DocumentedAnchor(slides)
             /\ {tasks[k] : k \in 1..Len(tasks)} = Units(slides) \ {DocumentedAnchor(slides)}

\* the selected title-like unit is neither the first unit nor the only
\* title-like one: a later unit is equal to it
C21_Witness ==
    /\ phase = "GenerateGroups"
    /\ anchor_index = 1
    /\ Len(slides) >= 3
    /\ slides[3] = slides[2]

\* C22: when the anchor unit of a run has failed, the run goes on and every
\* request of its group phase is built without a style anchor.
C22_AnchorFailureDegrades ==
    (AnchorResolved /\ ~ResultOf(anchor_index).success) =>
        /\ {tasks[k] : k \in 1..Len(tasks)} = GroupUnits
        /\ \A i \in GroupUnits :
              (pc[i] = "calling" /\ attempt[i] = 0) =>
                  Get(prompt[i]) = build_image_prompt(i)

\* C23: the style anchor is written only by the anchor phase on its way out
\* and only with a successful anchor result, at most once per run; during
\* the group phase it never changes, and the first request of every group
\* unit is built from the value the group phase started with.
C23_StyleAnchorWrittenOnce ==
    /\ [][style_anchor' # style_anchor =>
            /\ phase = "GenerateAnchor"
            /\ phase' # "GenerateAnchor"
            /\ Get(task_result'[anchor_index]).success]_vars
    /\ [](\A i \in GroupUnits :
            (phase = "GenerateGroups" /\ pc[i] = "calling" /\ attempt[i] = 0) =>
                Get(prompt[i]) = build_slide_prompt(i, style_anchor))

\* two group units are in the group phase at once, one already retrying,
\* with the style anchor of the run set
C23_Witness ==
    /\ phase = "GenerateGroups"
    /\ ~IsNone(style_anchor)
    /\ \E i, j \in GroupUnits :
          /\ i # j
          /\ pc[i] = "sleeping"
          /\ pc[j] = "calling"
          /\ Get(prompt[j]).anchored

\* C24: in every run on the generator, the style anchor held during the
\* group phase is absent or was established by the anchor unit of that run.
C24_StyleAnchorPerRun ==
    phase = "GenerateGroups" =>
        (IsNone(style_anchor) \/ ResultOf(anchor_index).success)

\* C25: a unit that waits for admission waits for a try that is in flight:
\* whenever no slot is free for the first waiting unit, at least one of the
\* slots is held by a unit whose backend call is running, never all of them
\* by units that sleep between two tries.
C25_SleepHoldsNoSlot ==
    (phase = "GenerateGroups" /\ waiters # << >> /\ locked(semaphore)) =>
        \E i \in GroupUnits : pc[i] \in {"calling", "hung"}

\* C26: a unit that was attempted and failed is handed on with an artifact
\* or with fallback data from which a placeholder can be made.
C26_FailedUnitHasFallback ==
    \A i \in GroupUnits :
        (Resolved(i) /\ ~ResultOf(i).success) =>
            \/ ResultOf(i).file_path # "None"
            \/ /\ "fallback_data" \in DOMAIN ResultOf(i)
               /\ ResultOf(i).fallback_data # "None"

\* C27: when the run has returned, the report's style_anchored flag is true
\* exactly when the anchor unit of the run succeeded, and the report has a
\* cache-hit count equal to the number of results served from the cache,
\* 0 included.
C27_RunMetadataAccurate ==
    phase = "Done" =>
        LET report == generate_ppt_result(results)
        IN  /\ report.generation_info.style_anchored = ResultOf(anchor_index).success
            /\ "cache_hits" \in DOMAIN report
            /\ report.cache_hits =
                 Cardinality({i \in Units(slides) : ResultOf(i).from_cache})

\* C28: the replacement request of a decision follows the kind: content
\* policy gives the request with its sensitive terms substituted at attempt
\* 0 and the abstract request at attempt 1, timeout gives the simplified
\* request at attempts 0..2, every other retry gives the request as it was,
\* and a terminal decision gives no replacement.
C28_ReplacementPerKind ==
    ~IsNone(an_output) =>
        LET p == Get(an_input).original_prompt
            a == Get(an_input).attempt
            out == Get(an_output)
            kind == out.error_type
        IN  /\ (kind = "content_policy" /\ a \in {0, 1}) => out.should_retry
            /\ (kind = "timeout" /\ a \in 0..2) => out.should_retry
            /\ out.modified_prompt =
                 IF ~out.should_retry THEN None
                 ELSE IF kind = "content_policy" /\ a = 0 THEN Some(sanitize_prompt(p))
                 ELSE IF kind = "content_policy" THEN Some(create_abstract_prompt(p))
                 ELSE IF kind = "timeout" THEN Some(simplify_prompt(p))
                 ELSE Some(p)
            /\ (kind = "content_policy" /\ a = 0) =>
                 \A k \in DOMAIN Get(out.modified_prompt).lines :
                     Get(out.modified_prompt).lines[k] # "sens"

\* a timeout at attempt 2 on a request with a long line: the replacement is
\* shorter than the request
C28_Witness ==
    /\ ~IsNone(an_output)
    /\ Get(an_output).error_type = "timeout"
    /\ Get(an_input).attempt = 2
    /\ Get(an_output).should_retry
    /\ Len(Get(Get(an_output).modified_prompt).lines) <
         Len(Get(an_input).original_prompt.lines)

\* the documented delay in milliseconds of a retry at attempt a; content
\* policy retries have no documented shape
DocumentedDelay(kind, a) ==
    CASE kind = "timeout" -> 2000 * (a + 1)
      [] kind = "network_error" -> 5000 * (a + 1)
      [] kind = "rate_limit" -> IF 2 ^ (a + 1) < 60 THEN 1000 * 2 ^ (a + 1) ELSE 60000
      [] kind = "api_error" -> 3000
      [] kind = "unknown" -> 2000

C30_RequestAndAttempt ==
    /\ [](\A i \in GroupUnits :
            pc[i] \in {"calling", "hung", "sleeping"} =>
                /\ attempt[i] = calls[i] - 1
                /\ attempt[i] \in 0..(max_retries - 1))
    /\ [][\A i \in GroupUnits :
            /\ (prompt[i] # NoPrompt /\ prompt'[i] # NoPrompt /\ prompt'[i] # prompt[i]) =>
                 /\ pc[i] = "calling"
                 /\ pc'[i] = "sleeping"
                 /\ raises'[i] = raises[i]
                 /\ prompt'[i] = analyze_error(backend_failure, Get(prompt[i]),
                                               attempt[i]).modified_prompt
            /\ (pc[i] = "calling" /\ pc'[i] = "sleeping" /\ raises'[i] = raises[i]) =>
                 prompt'[i] = analyze_error(backend_failure, Get(prompt[i]),
                                            attempt[i]).modified_prompt
            /\ (pc[i] = "sleeping" /\ pc'[i] = "calling") =>
                 /\ attempt'[i] = attempt[i] + 1
                 /\ prompt'[i] = prompt[i]
            /\ (pc[i] = "waiting" /\ pc'[i] = "calling") => attempt'[i] = 0
            /\ (attempt'[i] # attempt[i] /\ pc'[i] # "done") =>
                 (pc[i] = "sleeping" /\ pc'[i] = "calling")]_vars

\* a group unit is on its third try with a request that is no longer the
\* one it was built with, after a try that raised
C30_Witness ==
    \E i \in GroupUnits :
        /\ pc[i] = "calling"
        /\ attempt[i] = 2
        /\ raises[i] = 1
        /\ Get(prompt[i]) # build_slide_prompt(i, style_anchor)

\* C31: when a try of a group unit has failed with a failure dict of the
\* image tool (only an "error" text), the recovery decision taken for the
\* unit has the kind that the error text indicates: timeout, rate limit or
\* network error for a text with such a token.
C31_BackendFailureKind ==
    \A i \in GroupUnits :
        (/\ pc[i] = "sleeping"
         /\ raises[i] = 0
         /\ backend_failure.keys = {"error"}
         /\ backend_failure.error # {}) =>
            analyze_error(backend_failure, Get(prompt[i]), attempt[i]).error_type
                = classify_error(MISSING_CODE, backend_failure.error)

\* C32: a store that the file system lets through succeeds whatever the
\* index holds: cache_image returns the path of the cached copy.
C32_IndexNeverFailsStore ==
    (ret.op = "cache_image" /\ ret.fault = "none" /\ image_cache_dir) =>
        ret.value = Some("cache_path")

\* C33: when a call with use_cache set has produced a plan, by the
\* two-stage or by the single-stage generation, the plan is in the plan
\* cache under the fingerprint of the three inputs when the call returns.
C33_ProducedPlanIsStored ==
    (/\ ret.op = "generate_ppt_async"
     /\ Get(ret.result).use_cache
     /\ ret.fault \in {"two_stage", "single_stage"}) =>
        outline_store[Get(ret.key)] =
            Some([cached_at |-> now, outline |-> Get(ret.value), readable |-> TRUE])

\* do two units differ in one of the four compared fields (a field that a
\* unit does not have counts as having no value)
DocumentedDiffers(a, b) ==
    LET val(u, f) == IF u[f] = "absent" THEN "None" ELSE u[f]
    IN  \/ val(a, "title") # val(b, "title")
        \/ val(a, "slide_type") # val(b, "slide_type")
        \/ val(a, "key_points") # val(b, "key_points")
        \/ val(a, "content_summary") # val(b, "content_summary")

\* C34: get_changed_slides(old, new) lists, in ascending order and once
\* each, exactly the indices of new that are beyond the end of old or whose
\* old and new unit differ in a compared field; equal plans give the empty
\* list and a change in another field marks nothing.
C34_IncrementalDiff ==
    ~IsNone(diff_output) =>
        LET old == Get(diff_input).old_outline
            new == Get(diff_input).new_outline
            out == Get(diff_output)
            expected == {i \in 0..(Len(new) - 1) :
                            i >= Len(old) \/ DocumentedDiffers(old[i + 1], new[i + 1])}
        IN  /\ {out[k] : k \in 1..Len(out)} = expected
            /\ \A k \in 1..(Len(out) - 1) : out[k] < out[k + 1]
            /\ old = new => out = << >>

\* a new plan longer than the old one whose first unit changed only in its
\* content_summary: both indices are listed
C34_Witness ==
    /\ ~IsNone(diff_output)
    /\ Len(Get(diff_input).old_outline) = 1
    /\ Len(Get(diff_input).new_outline) = 2
    /\ Get(diff_input).old_outline[1] = BaseSlide
    /\ Get(diff_input).new_outline[1] = [BaseSlide EXCEPT !.content_summary = "s2"]
    /\ Get(diff_output) = << 0, 1 >>

\* backend calls issued so far in the run by the units of the set S
RECURSIVE CallsOf(_)
CallsOf(S) ==
    IF S = {} THEN 0
    ELSE LET i == CHOOSE x \in S : TRUE IN calls[i] + CallsOf(S \ {i})

\* C35: in a run the anchor unit issues at most one backend call and every
\* group unit at most three, so that N units issue at most 1 + 3*(N-1)
\* calls; a unit whose result comes from the cache has issued none.
C35_CallBudget ==
    anchor_index >= 0 =>
        /\ calls[anchor_index] <= 1
        /\ \A i \in GroupUnits : calls[i] <= 3
        /\ CallsOf(Units(slides)) <= 1 + 3 * (Len(slides) - 1)
        /\ \A i \in Units(slides) :
              (Resolved(i) /\ ResultOf(i).from_cache) => calls[i] = 0

\* a finished run in which one group unit used its three calls and another
\* was served from the cache
C35_Witness ==
    /\ phase = "Done"
    /\ calls[anchor_index] = 1
    /\ \E i, j \in GroupUnits :
          /\ calls[i] = 3
          /\ raises[i] >= 1
          /\ ResultOf(j).from_cache
          /\ calls[j] = 0

C37_RetriesIsCallsMinusOne ==
    \A i \in GroupUnits :
        Resolved(i) =>
            IF ResultOf(i).from_cache
            THEN ResultOf(i).retries = 0
            ELSE ResultOf(i).retries = calls[i] - 1

\* C38: with a backend that always answers, a run ends in Done and in no
\* other way, and when it has ended no unit is waiting for admission and
\* every admission slot is free.
C38_EndsDoneWithFreeSlots ==
    /\ phase # "Raised"
    /\ phase = "Done" => (waiters = << >> /\ semaphore = max_concurrent)

\* C39: a run over an empty slide list does not raise; it issues no backend
\* call, sets no style anchor and returns an empty result list.
C39_EmptyRunCompletes ==
    slides = << >> =>
        /\ phase \in {"Idle", "Done"}
        /\ results = << >>
        /\ IsNone(style_anchor)

====
